---- MODULE Spec2Model ----
(***************************************************************************)
(* A model of indeed_scraper.py: the sequential run of main (input         *)
(* validation, API key lookup, the listing pagination loop, the per-URL    *)
(* detail loop and the JSON writer), and the two pure functions            *)
(* normalize_job_url and the field extraction of fetch_job_details.        *)
(*                                                                         *)
(* Strings are sequences of tokens: "" is <<>>.  A URL is a sequence of    *)
(* URL tokens ("H" stands for "https://www.indeed.com").  None, where a    *)
(* variable holds either None or a value, is <<>> against <<value>>.       *)
(* The remote API and the file system are the environment: every response  *)
(* and every write outcome is chosen nondeterministically.                 *)
(***************************************************************************)
EXTENDS Integers, Sequences, FiniteSets, TLC

VARIABLES
    pc,          \* position of the control flow
    exc,         \* the exception propagating to main's handlers ("" = none)
    exit_codes,  \* the exit codes the process ended with (at most one)
    job_title,   \* main's job_title, then get_user_input's stripped one
    location,    \* main's location, then the stripped one
    limit,       \* main's limit, then the validated one
    api_key,     \* what os.getenv('HASDATA_API_KEY') returns
    collected,   \* fetch_job_listings: collected
    seen,        \* fetch_job_listings: seen
    start,       \* fetch_job_listings: start
    page_idx,    \* fetch_job_listings: page_idx
    pages,       \* history: the non-empty jobs arrays received, in order
    offsets,     \* history: the start value of every listing request issued
    last_resp,   \* history: how the last listing request ended
    job_urls,    \* scrape_indeed_jobs: job_urls
    idx,         \* scrape_indeed_jobs: idx of the loop over job_urls
    detailed,    \* scrape_indeed_jobs: detailed
    details,     \* scrape_indeed_jobs: details of the last iteration
    detail_log,  \* history: every detail request issued and how it ended
    save_calls,  \* history: number of calls of save_jobs_to_json
    file,        \* the envelope written by json.dump (<<>> = no file)
    data,        \* fetch_job_details: data, the input of the extraction
    picked,      \* the record the extraction returned
    url_in,      \* normalize_job_url: its argument
    url_once,    \* normalize_job_url(url_in)
    url_twice    \* normalize_job_url(normalize_job_url(url_in))

vars == << pc, exc, exit_codes, job_title, location, limit, api_key, collected,
           seen, start, page_idx, pages, offsets, last_resp, job_urls, idx,
           detailed, details, detail_log, save_calls, file, data, picked,
           url_in, url_once, url_twice >>

(***************************************************************************)
(* Bounds of the model.                                                    *)
(***************************************************************************)
MaxPages == 2       \* non-empty listing pages the API serves in one run
MaxPageLen == 2     \* items of one listing page
MaxLimit == 2       \* largest limit main passes
MaxUrlLen == 4      \* tokens of an input of normalize_job_url

(***************************************************************************)
(* Sequence helpers.                                                       *)
(***************************************************************************)
SeqsUpTo(S, n) == UNION { [1..k -> S] : k \in 0..n }

Range(s) == { s[i] : i \in 1..Len(s) }

Take(s, n) == SubSeq(s, 1, IF n < Len(s) THEN n ELSE Len(s))

\* the first index >= i at which sub occurs in s, 0 when there is none
RECURSIVE FindFrom(_, _, _)
FindFrom(s, sub, i) ==
    IF i + Len(sub) - 1 > Len(s) THEN 0
    ELSE IF SubSeq(s, i, i + Len(sub) - 1) = sub THEN i
    ELSE FindFrom(s, sub, i + 1)

\* the pieces of s between the occurrences of the token sep (str.split)
RECURSIVE Split(_, _)
Split(s, sep) ==
    LET i == FindFrom(s, <<sep>>, 1) IN
    IF i = 0 THEN <<s>>
    ELSE <<SubSeq(s, 1, i - 1)>> \o Split(SubSeq(s, i + 1, Len(s)), sep)

(***************************************************************************)
(* get_user_input                                                          *)
(***************************************************************************)
RECURSIVE LStrip(_)
LStrip(s) == IF s # <<>> /\ Head(s) = " " THEN LStrip(Tail(s)) ELSE s

RECURSIVE RStrip(_)
RStrip(s) ==
    IF s # <<>> /\ s[Len(s)] = " " THEN RStrip(SubSeq(s, 1, Len(s) - 1)) ELSE s

Strip(s) == RStrip(LStrip(s))

\* a limit is None, an integer, or a text int() rejects
NoneLimit == [kind |-> "none", val |-> 0]
IntLimit(n) == [kind |-> "int", val |-> n]
TextLimit == [kind |-> "text", val |-> 0]

\* whether get_user_input raises ValueError
InputInvalid(t, l, lim) ==
    \/ Strip(t) = <<>>
    \/ Strip(l) = <<>>
    \/ lim.kind = "text"
    \/ lim.kind = "int" /\ lim.val < 1

(***************************************************************************)
(* normalize_job_url.  urlparse cuts the fragment at the first "#" and the *)
(* query at the first "?"; parse_qs splits the query at "&", takes as name *)
(* what precedes the first "=" of a piece, drops the pieces without "=" or *)
(* with a blank value, and percent-decodes the values ("%26" is "&").      *)
(***************************************************************************)
Host == "H"
MobileSeg == <<"/m", "/viewjob">>
DesktopSeg == <<"/viewjob">>

\* urlparse(url).query
QueryOf(url) ==
    LET h == FindFrom(url, <<"#">>, 1)
        nofrag == IF h = 0 THEN url ELSE SubSeq(url, 1, h - 1)
        q == FindFrom(nofrag, <<"?">>, 1)
    IN  IF q = 0 THEN <<>> ELSE SubSeq(nofrag, q + 1, Len(nofrag))

\* urllib.parse.unquote of a value
Unquote(v) == [i \in 1..Len(v) |-> IF v[i] = "%26" THEN "&" ELSE v[i]]

\* parse_qs(query).get(name): the values of the pieces named by the token key
RECURSIVE ValuesOf(_, _)
ValuesOf(pieces, key) ==
    IF pieces = <<>> THEN <<>>
    ELSE LET p == Head(pieces)
             rest == ValuesOf(Tail(pieces), key)
         IN  IF Len(p) >= 2 /\ Head(p) = key
             THEN <<Unquote(Tail(p))>> \o rest
             ELSE rest

ParseQs(query, key) == ValuesOf(Split(query, "&"), key)

\* (qs.get("jk") or [None])[0] or (qs.get("vjk") or [None])[0]; <<>> is None
JobKey(url) ==
    LET jk == ParseQs(QueryOf(url), "jk=")
        vjk == ParseQs(QueryOf(url), "vjk=")
    IN  IF jk # <<>> THEN jk[1] ELSE IF vjk # <<>> THEN vjk[1] ELSE <<>>

\* str.replace(old, new, 1)
ReplaceFirst(s, old, new) ==
    LET i == FindFrom(s, old, 1) IN
    IF i = 0 THEN s
    ELSE SubSeq(s, 1, i - 1) \o new \o SubSeq(s, i + Len(old), Len(s))

Normalize(url) ==
    IF JobKey(url) # <<>>
    THEN <<Host, "/viewjob", "?", "jk=">> \o JobKey(url)
    ELSE IF FindFrom(url, MobileSeg, 1) # 0
    THEN ReplaceFirst(url, MobileSeg, DesktopSeg)
    ELSE url

(***************************************************************************)
(* fetch_job_details: the field extraction.  A JSON object is a function   *)
(* from the keys it holds to their values; data is the pair of the         *)
(* top-level object (top) and data.get("job", {}) (job).                   *)
(***************************************************************************)
Fields == {"title", "company", "location", "description"}

\* pick(d, *keys, default="")
RECURSIVE Pick(_, _)
Pick(d, keys) ==
    IF keys = <<>> THEN <<>>
    ELSE IF Head(keys) \in DOMAIN d /\ d[Head(keys)] # <<>> THEN d[Head(keys)]
    ELSE Pick(d, Tail(keys))

\* Python's a or b on strings
Or(a, b) == IF a # <<>> THEN a ELSE b

\* the keys pick is given for the top-level object, per field
TopKeys(f) ==
    CASE f = "title" -> <<"title">>
      [] f = "company" -> <<"company">>
      [] f = "location" -> <<"location">>
      [] f = "description" ->
            <<"description", "jobDescription", "full_description">>

\* the keys pick is given for the nested object, per field
JobKeys(f) ==
    CASE f = "title" -> <<"title", "jobTitle">>
      [] f = "company" -> <<"company", "companyName", "company_name">>
      [] f = "location" -> <<"location", "jobLocation">>
      [] f = "description" ->
            <<"description", "jobDescription", "full_description">>

ExtractField(dat, f) ==
    Or(Or(Pick(dat.top, TopKeys(f)), Pick(dat.job, JobKeys(f))), <<>>)

\* the dict fetch_job_details returns
ExtractRecord(dat, job_url) ==
    [ title |-> ExtractField(dat, "title"),
      company |-> ExtractField(dat, "company"),
      location |-> ExtractField(dat, "location"),
      description |-> ExtractField(dat, "description"),
      url |-> Normalize(job_url),
      source_url |-> job_url ]

(***************************************************************************)
(* The environment of one run.                                             *)
(***************************************************************************)
\* the arguments main passes to get_user_input
TitleInputs == { <<>>, <<" ">>, <<"M", "L">>, <<" ", "M", "L", " ">> }
LocationInputs == { <<>>, <<"D">>, <<" ", "D">> }
LimitInputs == { NoneLimit, TextLimit } \cup { IntLimit(n) : n \in -1..MaxLimit }

\* os.getenv('HASDATA_API_KEY'): None, "" or a key
ApiKeyEnv == { <<>>, << <<>> >>, << <<"k">> >> }

\* the raw URLs the listing API returns
UrlA == <<Host, "/rc/clk", "?", "jk=", "a", "&", "other=", "1">>
UrlB == <<Host, "/m", "/viewjob">>
Urls == { UrlA, UrlB }

\* j.get("url") of an item of a page: None and "" are both <<>>
JobItems == Urls \cup { <<>> }

\* the non-empty jobs arrays of a listing response
PageSet == SeqsUpTo(JobItems, MaxPageLen) \ { <<>> }

\* the ways a listing request fails: Timeout, another exception, status # 200
ListingFailures == { "timeout", "error", "status" }

\* the JSON bodies of the detail API
BodyTop ==
    [ top |-> [ title |-> <<"T">>, company |-> <<"C">>,
                location |-> <<"L">>, description |-> <<"Desc">> ],
      job |-> <<>> ]
BodyNested ==
    [ top |-> <<>>,
      job |-> [ jobTitle |-> <<"X">>, company_name |-> <<"Y">> ] ]
BodyEmpty == [ top |-> <<>>, job |-> <<>> ]
DetailBodies == { BodyTop, BodyNested, BodyEmpty }

\* the responses of the detail API that fetch_job_details returns from
DetailResponses ==
    { [ kind |-> k, body |-> BodyEmpty ] : k \in { "error", "status" } }
    \cup { [ kind |-> "ok", body |-> b ] : b \in DetailBodies }

(***************************************************************************)
(* fetch_job_listings: the steps of one iteration of the loop.             *)
(***************************************************************************)
\* lines 85-92 without seen.add(u): a URL repeated within a page stays
NewUrls_NoSeenAdd(jobs, s) ==
    SelectSeq(jobs, LAMBDA u : u # <<>> /\ u \notin s)

\* lines 85-92: the URLs of jobs that are not in s, each once, in order
RECURSIVE NewUrls(_, _)
NewUrls(jobs, s) ==
    IF jobs = <<>> THEN <<>>
    ELSE LET u == Head(jobs) IN
         IF u = <<>> \/ u \in s THEN NewUrls(Tail(jobs), s)
         ELSE <<u>> \o NewUrls(Tail(jobs), s \cup {u})

\* line 97 with > for >=
ReachedLimit_Strict(lim, coll) == lim.kind = "int" /\ Len(coll) > lim.val

\* line 97
ReachedLimit(lim, coll) == lim.kind = "int" /\ Len(coll) >= lim.val

\* line 98: collected[:limit]
Truncate(coll, lim) == Take(coll, lim.val)

\* line 102 with len(new_urls) for len(jobs)
NextStart_NewOnly(s, jobs) == s + Len(NewUrls(jobs, seen))

\* line 102
NextStart(s, jobs) == s + Len(jobs)

\* lines 66-77 returning [] on a failure instead of breaking
ListingFail_DropsCollected ==
    /\ pc = "listing"
    /\ \E k \in ListingFailures : last_resp' = k
    /\ offsets' = Append(offsets, start)
    /\ collected' = <<>>
    /\ pc' = "listing_done"
    /\ UNCHANGED << exc, exit_codes, job_title, location, limit, api_key,
                    seen, start, page_idx, pages, job_urls, idx, detailed,
                    details, detail_log, save_calls, file, data, picked,
                    url_in, url_once, url_twice >>

\* lines 66-77: the request fails; the loop breaks with collected as it is
ListingFail ==
    /\ pc = "listing"
    /\ \E k \in ListingFailures : last_resp' = k
    /\ offsets' = Append(offsets, start)
    /\ pc' = "listing_done"
    /\ UNCHANGED << exc, exit_codes, job_title, location, limit, api_key,
                    collected, seen, start, page_idx, pages, job_urls, idx,
                    detailed, details, detail_log, save_calls, file, data,
                    picked, url_in, url_once, url_twice >>

\* the frame of fetch_job_listings ends, by return or by an exception: its
\* locals and the history of its requests end with it
LeaveListing ==
    /\ collected' = <<>>
    /\ seen' = {}
    /\ start' = 0
    /\ page_idx' = 1
    /\ pages' = <<>>
    /\ offsets' = <<>>
    /\ last_resp' = ""

\* line 79: status 200 and resp.json() raises; nothing catches it here
ListingBadJson ==
    /\ pc = "listing"
    /\ LeaveListing
    /\ exc' = "JSONDecodeError"
    /\ pc' = "except"
    /\ UNCHANGED << exit_codes, job_title, location, limit, api_key,
                    job_urls, idx, detailed, details, detail_log, save_calls,
                    file, data, picked, url_in, url_once, url_twice >>

\* lines 80-83: no jobs key or an empty array
ListingEmpty ==
    /\ pc = "listing"
    /\ last_resp' = "empty"
    /\ offsets' = Append(offsets, start)
    /\ pc' = "listing_done"
    /\ UNCHANGED << exc, exit_codes, job_title, location, limit, api_key,
                    collected, seen, start, page_idx, pages, job_urls, idx,
                    detailed, details, detail_log, save_calls, file, data,
                    picked, url_in, url_once, url_twice >>

\* lines 85-105: a non-empty page
ListingPage ==
    /\ pc = "listing"
    /\ Len(pages) < MaxPages
    /\ \E jobs \in PageSet :
         LET new_urls == NewUrls(jobs, seen)
             all == collected \o new_urls
         IN  /\ pages' = Append(pages, jobs)
             /\ seen' = seen \cup Range(new_urls)
             /\ IF ReachedLimit(limit, all)
                THEN /\ collected' = Truncate(all, limit)
                     /\ pc' = "listing_done"
                     /\ UNCHANGED << start, page_idx >>
                ELSE /\ collected' = all
                     /\ start' = NextStart(start, jobs)
                     /\ page_idx' = page_idx + 1
                     /\ pc' = "listing"
    /\ last_resp' = "page"
    /\ offsets' = Append(offsets, start)
    /\ UNCHANGED << exc, exit_codes, job_title, location, limit, api_key,
                    job_urls, idx, detailed, details, detail_log, save_calls,
                    file, data, picked, url_in, url_once, url_twice >>

(***************************************************************************)
(* main and scrape_indeed_jobs.                                            *)
(***************************************************************************)
\* line 228: get_user_input returns the stripped strings or raises ValueError
GetUserInput ==
    /\ pc = "main"
    /\ IF InputInvalid(job_title, location, limit)
       THEN /\ exc' = "ValueError"
            /\ pc' = "except"
            /\ UNCHANGED << job_title, location >>
       ELSE /\ job_title' = Strip(job_title)
            /\ location' = Strip(location)
            /\ pc' = "get_api_key"
            /\ UNCHANGED exc
    /\ UNCHANGED << exit_codes, limit, api_key, collected, seen, start,
                    page_idx, pages, offsets, last_resp, job_urls, idx,
                    detailed, details, detail_log, save_calls, file, data,
                    picked, url_in, url_once, url_twice >>

\* lines 15-21 and 190: sys.exit(1) when the key is None or ""
GetApiKey ==
    /\ pc = "get_api_key"
    /\ IF api_key = <<>> \/ api_key[1] = <<>>
       THEN exc' = "SystemExit" /\ pc' = "except"
       ELSE exc' = exc /\ pc' = "listing"
    /\ UNCHANGED << exit_codes, job_title, location, limit, api_key,
                    collected, seen, start, page_idx, pages, offsets,
                    last_resp, job_urls, idx, detailed, details, detail_log,
                    save_calls, file, data, picked, url_in, url_once,
                    url_twice >>

\* lines 107-108 and 192-200: fetch_job_listings returns collected
ListingReturn ==
    /\ pc = "listing_done"
    /\ job_urls' = collected
    /\ IF collected = <<>> THEN pc' = "return" ELSE pc' = "details"
    /\ idx' = 1
    /\ detailed' = <<>>
    /\ LeaveListing
    /\ UNCHANGED << exc, exit_codes, job_title, location, limit, api_key,
                    details, detail_log, save_calls, file, data, picked,
                    url_in, url_once, url_twice >>

\* lines 110-150: what fetch_job_details returns (<<>> is None) when the
\* request raises (error), the status is not 200 (status) or the body parses
FetchJobDetails(job_url, resp) ==
    IF resp.kind \in { "error", "status" } THEN <<>>
    ELSE << ExtractRecord(resp.body, job_url) >>

\* lines 201-210: one iteration of the loop over job_urls
DetailStep ==
    /\ pc = "details"
    /\ \E resp \in DetailResponses :
         LET r == FetchJobDetails(job_urls[idx], resp) IN
         /\ details' = r
         /\ detailed' = IF r # <<>> THEN Append(detailed, r[1]) ELSE detailed
         /\ detail_log' = Append(detail_log,
                [ url |-> job_urls[idx], outcome |-> resp.kind ])
    /\ idx' = idx + 1
    /\ pc' = IF idx < Len(job_urls) THEN "details" ELSE "save"
    /\ UNCHANGED << exc, exit_codes, job_title, location, limit, api_key,
                    collected, seen, start, page_idx, pages, offsets,
                    last_resp, job_urls, save_calls, file, data, picked,
                    url_in, url_once, url_twice >>

\* line 125: status 200 and resp.json() raises, outside the try of line 115;
\* the exception leaves fetch_job_details and scrape_indeed_jobs
DetailBadJson ==
    /\ pc = "details"
    /\ detail_log' = Append(detail_log,
            [ url |-> job_urls[idx], outcome |-> "badjson" ])
    /\ exc' = "JSONDecodeError"
    /\ pc' = "except"
    /\ UNCHANGED << exit_codes, job_title, location, limit, api_key,
                    collected, seen, start, page_idx, pages, offsets,
                    last_resp, job_urls, idx, detailed, details, save_calls,
                    file, data, picked, url_in, url_once, url_twice >>

\* lines 160-170: the envelope (the timestamp is left out)
Envelope(jobs, t, l) ==
    [ metadata |-> [ search_job_title |-> t \o <<"_detailed">>,
                     search_location |-> l,
                     total_jobs |-> Len(jobs) ],
      data |-> [ job |-> jobs ] ]

\* lines 223-224: nothing was fetched
SaveSkip ==
    /\ pc = "save"
    /\ detailed = <<>>
    /\ pc' = "return"
    /\ UNCHANGED << exc, exit_codes, job_title, location, limit, api_key,
                    collected, seen, start, page_idx, pages, offsets,
                    last_resp, job_urls, idx, detailed, details, detail_log,
                    save_calls, file, data, picked, url_in, url_once,
                    url_twice >>

\* lines 212-222 and 172-179: the file is written, or open/json.dump raises
\* and save_jobs_to_json returns None
SaveWrite ==
    /\ pc = "save"
    /\ detailed # <<>>
    /\ save_calls' = save_calls + 1
    /\ \E written \in BOOLEAN :
         file' = IF written
                 THEN << Envelope(detailed, job_title, location) >>
                 ELSE file
    /\ pc' = "return"
    /\ UNCHANGED << exc, exit_codes, job_title, location, limit, api_key,
                    collected, seen, start, page_idx, pages, offsets,
                    last_resp, job_urls, idx, detailed, details, detail_log,
                    data, picked, url_in, url_once, url_twice >>

\* line 153: os.makedirs raises, outside the try of line 172
SaveMkdirFails ==
    /\ pc = "save"
    /\ detailed # <<>>
    /\ save_calls' = save_calls + 1
    /\ exc' = "OSError"
    /\ pc' = "except"
    /\ UNCHANGED << exit_codes, job_title, location, limit, api_key,
                    collected, seen, start, page_idx, pages, offsets,
                    last_resp, job_urls, idx, detailed, details, detail_log,
                    file, data, picked, url_in, url_once, url_twice >>

\* the positions inside the try of main
TryPcs == { "main", "get_api_key", "listing", "listing_done", "details",
            "save" }

\* Ctrl-C while main's try block runs
Interrupt ==
    /\ pc \in TryPcs
    /\ exc' = "KeyboardInterrupt"
    /\ pc' = "except"
    /\ IF pc \in { "listing", "listing_done" }
       THEN LeaveListing
       ELSE UNCHANGED << collected, seen, start, page_idx, pages, offsets,
                         last_resp >>
    /\ UNCHANGED << exit_codes, job_title, location, limit, api_key,
                    job_urls, idx, detailed, details, detail_log, save_calls,
                    file, data, picked, url_in, url_once, url_twice >>

\* lines 231-233 missing: KeyboardInterrupt ends like any other error
HandlerExitCode_NoInterruptCase(e) == 1

\* lines 231-236 and 20: the exit code an exception leaving the try ends in;
\* SystemExit(1) passes both handlers
HandlerExitCode(e) ==
    CASE e = "KeyboardInterrupt" -> 0
      [] e = "SystemExit" -> 1
      [] OTHER -> 1

MainExcept ==
    /\ pc = "except"
    /\ exit_codes' = Append(exit_codes, HandlerExitCode(exc))
    /\ pc' = "exited"
    /\ UNCHANGED << exc, job_title, location, limit, api_key, collected,
                    seen, start, page_idx, pages, offsets, last_resp,
                    job_urls, idx, detailed, details, detail_log, save_calls,
                    file, data, picked, url_in, url_once, url_twice >>

\* scrape_indeed_jobs returned: main ends and the interpreter exits with 0
MainReturn ==
    /\ pc = "return"
    /\ exit_codes' = Append(exit_codes, 0)
    /\ pc' = "exited"
    /\ UNCHANGED << exc, job_title, location, limit, api_key, collected,
                    seen, start, page_idx, pages, offsets, last_resp,
                    job_urls, idx, detailed, details, detail_log, save_calls,
                    file, data, picked, url_in, url_once, url_twice >>

\* the variables of the run of main, before get_user_input
InitRun ==
    /\ exc = ""
    /\ exit_codes = <<>>
    /\ collected = <<>>
    /\ seen = {}
    /\ start = 0
    /\ page_idx = 1
    /\ pages = <<>>
    /\ offsets = <<>>
    /\ last_resp = ""
    /\ job_urls = <<>>
    /\ idx = 1
    /\ detailed = <<>>
    /\ details = <<>>
    /\ detail_log = <<>>
    /\ save_calls = 0
    /\ file = <<>>

\* the variables of the two pure functions, unused in a run of main
InitFunctions ==
    /\ data = BodyEmpty
    /\ picked = <<>>
    /\ url_in = <<>>
    /\ url_once = <<>>
    /\ url_twice = <<>>

Init ==
    /\ pc = "main"
    /\ job_title \in TitleInputs
    /\ location \in LocationInputs
    /\ limit \in LimitInputs
    /\ api_key \in ApiKeyEnv
    /\ InitRun
    /\ InitFunctions

Next ==
    \/ GetUserInput
    \/ GetApiKey
    \/ ListingFail
    \/ ListingBadJson
    \/ ListingEmpty
    \/ ListingPage
    \/ ListingReturn
    \/ DetailStep
    \/ DetailBadJson
    \/ SaveSkip
    \/ SaveWrite
    \/ SaveMkdirFails
    \/ Interrupt
    \/ MainExcept
    \/ MainReturn

Spec == Init /\ [][Next]_vars

(***************************************************************************)
(* The field extraction of fetch_job_details on its own: data ranges over  *)
(* the responses that hold, at the top level and under job, any subset of  *)
(* the keys of one field, each with an empty or a non-empty value.  A      *)
(* non-empty value names the place it stands at.                           *)
(***************************************************************************)
\* every key the extraction looks for, per field, in the order of lines 135-141
FieldKeys(f) == JobKeys(f)

\* the objects holding some of the keys of field f, at level lvl
ObjectsOf(lvl, f) ==
    UNION { { [ k \in S |-> IF k \in E THEN <<>> ELSE <<lvl, k>> ] :
              E \in SUBSET S } :
            S \in SUBSET Range(FieldKeys(f)) }

ExtractInputs ==
    UNION { { [ top |-> t, job |-> j ] :
              t \in ObjectsOf("top", f), j \in ObjectsOf("job", f) } :
            f \in Fields }

InitExtract ==
    /\ pc = "extract"
    /\ data \in ExtractInputs
    /\ picked = <<>>
    /\ job_title = <<>>
    /\ location = <<>>
    /\ limit = NoneLimit
    /\ api_key = <<>>
    /\ InitRun
    /\ url_in = <<>>
    /\ url_once = <<>>
    /\ url_twice = <<>>

\* lines 125-150 on a parsed body
Extract ==
    /\ pc = "extract"
    /\ picked' = << ExtractRecord(data, UrlA) >>
    /\ pc' = "extracted"
    /\ UNCHANGED << exc, exit_codes, job_title, location, limit, api_key,
                    collected, seen, start, page_idx, pages, offsets,
                    last_resp, job_urls, idx, detailed, details, detail_log,
                    save_calls, file, data, url_in, url_once, url_twice >>

NextExtract == Extract

SpecExtract == InitExtract /\ [][NextExtract]_vars

(***************************************************************************)
(* normalize_job_url on its own, applied once and then to its own result.  *)
(***************************************************************************)
UrlTokens == { Host, "/m", "/viewjob", "?", "#", "&", "%26", "jk=", "vjk=",
               "a" }

UrlInputs == SeqsUpTo(UrlTokens, MaxUrlLen)

InitNormalize ==
    /\ pc = "normalize"
    /\ url_in \in UrlInputs
    /\ url_once = <<>>
    /\ url_twice = <<>>
    /\ job_title = <<>>
    /\ location = <<>>
    /\ limit = NoneLimit
    /\ api_key = <<>>
    /\ InitRun
    /\ data = BodyEmpty
    /\ picked = <<>>

NormalizeOnce ==
    /\ pc = "normalize"
    /\ url_once' = Normalize(url_in)
    /\ pc' = "normalize_again"
    /\ UNCHANGED << exc, exit_codes, job_title, location, limit, api_key,
                    collected, seen, start, page_idx, pages, offsets,
                    last_resp, job_urls, idx, detailed, details, detail_log,
                    save_calls, file, data, picked, url_in, url_twice >>

NormalizeAgain ==
    /\ pc = "normalize_again"
    /\ url_twice' = Normalize(url_once)
    /\ pc' = "normalized"
    /\ UNCHANGED << exc, exit_codes, job_title, location, limit, api_key,
                    collected, seen, start, page_idx, pages, offsets,
                    last_resp, job_urls, idx, detailed, details, detail_log,
                    save_calls, file, data, picked, url_in, url_once >>

NextNormalize == NormalizeOnce \/ NormalizeAgain

SpecNormalize == InitNormalize /\ [][NextNormalize]_vars

(***************************************************************************)
(* The properties.                                                         *)
(***************************************************************************)
RECURSIVE Flatten(_)
Flatten(ps) == IF ps = <<>> THEN <<>> ELSE Head(ps) \o Flatten(Tail(ps))

\* every raw item received so far, in order
Served == Flatten(pages)

IsPrefix(a, b) == Len(a) <= Len(b) /\ SubSeq(b, 1, Len(a)) = a

\* the non-empty URLs of raw, each at its first occurrence
RECURSIVE KeepFirst(_, _)
KeepFirst(raw, i) ==
    IF i > Len(raw) THEN <<>>
    ELSE ( IF raw[i] # <<>> /\ \A j \in 1..(i - 1) : raw[j] # raw[i]
           THEN << raw[i] >> ELSE <<>> ) \o KeepFirst(raw, i + 1)

FirstSeenOrder(raw) == KeepFirst(raw, 1)

InListing == pc \in { "listing", "listing_done" }

\* C1: whatever pages were served, the list fetch_job_listings holds and
\* returns has no URL twice and no empty URL, and is the URLs of the pages in
\* first-seen order: all of them, or with a limit the first limit of them.
C1_UniqueFirstSeen ==
    InListing =>
        /\ \A i, j \in 1..Len(collected) :
              i # j => collected[i] # collected[j]
        /\ \A i \in 1..Len(collected) : collected[i] # <<>>
        /\ IsPrefix(collected, FirstSeenOrder(Served))
        /\ \/ collected = FirstSeenOrder(Served)
           \/ limit.kind = "int" /\ Len(collected) = limit.val

\* C1: two pages that share a URL, a URL twice in one page, an item without url
C1_Witness ==
    /\ pc = "listing_done"
    /\ Len(pages) = 2
    /\ Range(pages[1]) \cap Range(pages[2]) \cap Urls # {}
    /\ \E p \in Range(pages) : Len(p) = 2 /\ p[1] = p[2] /\ p[1] # <<>>
    /\ \E i \in 1..Len(Served) : Served[i] = <<>>
    /\ collected # <<>>

\* C2: with a limit L the list never holds more than L URLs; once the pages
\* received hold L unique URLs the loop has stopped with exactly the first L
\* of them, the page that reached L is the last request issued, and no
\* earlier page had reached L.
C2_LimitStops ==
    limit.kind = "int" /\ limit.val >= 1 =>
        /\ Len(collected) <= limit.val
        /\ Len(job_urls) <= limit.val
        /\ InListing =>
              /\ Len(FirstSeenOrder(Served)) >= limit.val =>
                    /\ pc = "listing_done"
                    /\ collected = Take(FirstSeenOrder(Served), limit.val)
                    /\ Len(offsets) = Len(pages)
              /\ \A k \in 0..(Len(pages) - 1) :
                    Len(FirstSeenOrder(Flatten(SubSeq(pages, 1, k))))
                        < limit.val

\* C2: the pages hold more unique URLs than the limit and the rest is cut
C2_Witness ==
    /\ pc = "listing_done"
    /\ limit.kind = "int"
    /\ Len(FirstSeenOrder(Served)) > limit.val
    /\ Len(collected) = limit.val

\* C3: after a timeout, another exception or a status other than 200 the
\* loop is left, no further request is issued, nothing is raised, and the
\* list is the unique URLs of the pages received before, empty when the
\* first request failed.
C3_FailureStopsGracefully ==
    /\ pc = "listing" => last_resp \notin ListingFailures
    /\ pc = "listing_done" /\ last_resp \in ListingFailures =>
          /\ exc = ""
          /\ exit_codes = <<>>
          /\ Len(offsets) = Len(pages) + 1
          /\ collected = FirstSeenOrder(Served)
          /\ pages = <<>> => collected = <<>>

\* C3: a failure after a page that brought URLs
C3_Witness ==
    /\ pc = "listing_done"
    /\ last_resp \in ListingFailures
    /\ pages # <<>>
    /\ collected # <<>>

\* C4: whenever the detail request failed (exception, status other than 200,
\* or a body that is no JSON), fetch_job_details returned None and raised
\* nothing.
C4_DetailFailureReturnsNone ==
    ( detail_log # <<>>
      /\ detail_log[Len(detail_log)].outcome \in { "error", "status", "badjson" } )
    => /\ details = <<>>
       /\ exc # "JSONDecodeError"

Lookup(d, k) == IF k \in DOMAIN d THEN d[k] ELSE <<>>

\* the values at (top, k1), (top, k2), ..., (job, k1), (job, k2), ...
CandidateValues(dat, f) ==
    [ i \in 1..Len(FieldKeys(f)) |-> Lookup(dat.top, FieldKeys(f)[i]) ]
    \o [ i \in 1..Len(FieldKeys(f)) |-> Lookup(dat.job, FieldKeys(f)[i]) ]

FirstNonEmpty(vals) ==
    IF \E i \in 1..Len(vals) : vals[i] # <<>>
    THEN vals[CHOOSE i \in 1..Len(vals) :
                /\ vals[i] # <<>>
                /\ \A j \in 1..(i - 1) : vals[j] = <<>>]
    ELSE <<>>

\* C5: every field of the record is the first non-empty value among the
\* field's full list of keys in the top-level object, then the same list in
\* the object under job; the empty string when there is none.
C5_FullKeyListAtBothLevels ==
    pc = "extracted" =>
        \A f \in Fields :
            picked[1][f] = FirstNonEmpty(CandidateValues(data, f))

\* C6: normalize_job_url applied to its own result returns that result.
C6_NormalizeIdempotent ==
    pc = "normalized" => url_twice = url_once

\* a run of scrape_indeed_jobs that the user did not interrupt has ended
RunEnded == pc = "exited" /\ exc # "KeyboardInterrupt"

RecordFetched ==
    \E i \in 1..Len(detail_log) : detail_log[i].outcome = "ok"

\* C7: save_jobs_to_json is called at most once, only after the detail
\* request of the last URL, and in a run that ended exactly when some detail
\* fetch returned a record; the file holds the records in order and their
\* count.
C7_WriterOnceIffRecords ==
    /\ save_calls <= 1
    /\ save_calls = 1 => Len(detail_log) = Len(job_urls) /\ job_urls # <<>>
    /\ file # <<>> =>
          /\ save_calls = 1
          /\ file[1].data.job = detailed
          /\ file[1].metadata.total_jobs = Len(detailed)
    /\ RunEnded => ( save_calls = 1 <=> RecordFetched )

\* C8: the process ends once, with 0 after a completed run (whether or not a
\* file was written) and after an interrupt, with 1 when the API key is
\* missing or an error reached main's handler, and with nothing else.
C8_ExitCodes ==
    /\ Len(exit_codes) <= 1
    /\ \A i \in 1..Len(exit_codes) : exit_codes[i] \in { 0, 1 }
    /\ pc = "exited" =>
          /\ Len(exit_codes) = 1
          /\ exc \in { "", "KeyboardInterrupt" } => exit_codes[1] = 0
          /\ exc \notin { "", "KeyboardInterrupt" } => exit_codes[1] = 1
    /\ exc = "ValueError" => InputInvalid(job_title, location, limit)
    /\ ( pc = "exited" /\ exc # "KeyboardInterrupt"
         /\ InputInvalid(job_title, location, limit) ) => exit_codes = << 1 >>
    /\ exc = "SystemExit" =>
          ( api_key = <<>> \/ api_key[1] = <<>> )
    /\ ( pc = "exited" /\ exc # "KeyboardInterrupt"
         /\ ~InputInvalid(job_title, location, limit)
         /\ ( api_key = <<>> \/ api_key[1] = <<>> ) ) => exit_codes = << 1 >>

\* C8: the process ended with 1 because get_user_input raised
C8_Witness ==
    /\ pc = "exited"
    /\ exc = "ValueError"
    /\ exit_codes = << 1 >>

\* C9: in a run that ended, every URL of the listing got exactly one detail
\* request, in listing order, and the accumulator is the records of the
\* fetches that succeeded, in that order.
C9_OneRequestPerUrl ==
    /\ IsPrefix([ i \in 1..Len(detail_log) |-> detail_log[i].url ], job_urls)
    /\ RunEnded =>
          [ i \in 1..Len(detail_log) |-> detail_log[i].url ] = job_urls
    /\ [ i \in 1..Len(detailed) |-> detailed[i].source_url ] =
          [ i \in 1..Len(SelectSeq(detail_log, LAMBDA e : e.outcome = "ok"))
              |-> SelectSeq(detail_log, LAMBDA e : e.outcome = "ok")[i].url ]

\* C10: the first request is at offset 0, every later one at the number of
\* raw items of all pages received before it, and the offsets grow strictly.
C10_OffsetCountsRawItems ==
    /\ \A k \in 1..Len(offsets) :
          offsets[k] = Len(Flatten(SubSeq(pages, 1, k - 1)))
    /\ offsets # <<>> => offsets[1] = 0
    /\ \A k \in 1..(Len(offsets) - 1) : offsets[k] < offsets[k + 1]
    /\ pc = "listing" => start = Len(Served)

\* C10: three requests, and the raw items outnumber the unique URLs
C10_Witness ==
    /\ Len(offsets) = 3
    /\ offsets[3] > Len(FirstSeenOrder(Served))
    /\ offsets[2] > 1

====
